---- MODULE Spec2Model ----
(***************************************************************************)
(* The statistics poller: main.go and its variant unnamed/part_000.        *)
(*                                                                         *)
(* One process polls a statistics endpoint forever.  Each iteration calls  *)
(* pollOnce (request, read, trim, split, parse, threshold checks, printed  *)
(* warnings) and then updates the failure streak and prints the            *)
(* "Unable to fetch" notice.                                               *)
(*                                                                         *)
(* Text is a sequence of one-character strings.  The alphabet of the       *)
(* bodies is the digits, ".", ",", " ", "\n" and the letter "x"; on this   *)
(* alphabet ParseFloat and ParseUint below accept exactly what strconv     *)
(* accepts (no sign, exponent, "inf", "nan" or hexadecimal mantissa can be *)
(* written with it).                                                       *)
(*                                                                         *)
(* The byte counts are 64 bits wide, wider than the integers of the model  *)
(* checker, so a natural number is kept as the sequence of its decimal     *)
(* digits (most significant first, no leading zero) and uint64 arithmetic  *)
(* is that of the naturals reduced modulo 2^64.                            *)
(***************************************************************************)
EXTENDS Integers, Sequences, FiniteSets, TLC

VARIABLES
  variant,            \* which program runs: "main" (main.go) or "part_000"
  build,              \* the build's architecture: "amd64", "arm64" or "386"
  consecutiveErrors,  \* main: consecutiveErrors
  errorPrinted,       \* main: errorPrinted / errorMessagePrinted
  resp,               \* the response the last poll received
  err,                \* what the last pollOnce returned ("nil" or an error)
  snap,               \* the numbers the last pollOnce parsed (before its checks)
  out,                \* the lines the last iteration wrote to standard output
  failStreak,         \* observed: failed polls since the last successful one
  streakNotices,      \* observed: notice lines printed since the last successful poll
  recovered           \* observed: a successful poll has followed a printed notice

vars == <<variant, build, consecutiveErrors, errorPrinted, resp, err, snap, out,
          failStreak, streakNotices, recovered>>

----------------------------------------------------------------------------
(* Bounds of the model *)

\* the failure streak is followed up to this length
MaxStreak == 4

----------------------------------------------------------------------------
(* Natural numbers as decimal digit sequences *)

\* without leading zeros; zero is <<0>>
Norm(a) ==
  IF \A i \in 1..Len(a) : a[i] = 0 THEN <<0>>
  ELSE LET k == CHOOSE i \in 1..Len(a) : a[i] # 0 /\ \A j \in 1..(i - 1) : a[j] = 0
       IN  SubSeq(a, k, Len(a))

RECURSIVE FromInt(_)
FromInt(n) == IF n < 10 THEN <<n>> ELSE FromInt(n \div 10) \o <<n % 10>>

Zeros(n) == [i \in 1..n |-> 0]

PadTo(a, n) == Zeros(n - Len(a)) \o a

\* n * 10^k
Scaled(n, k) == FromInt(n) \o Zeros(k)

Less(a, b) ==
  IF Len(a) # Len(b) THEN Len(a) < Len(b)
  ELSE \E i \in 1..Len(a) : a[i] < b[i] /\ \A j \in 1..(i - 1) : a[j] = b[j]

Leq(a, b) == ~Less(b, a)

\* The carry into digit i of a + b (digit 1 is the most significant): some
\* lower digit pair overflows and every pair in between passes the carry on.
CarryInto(a, b, i) ==
  \E j \in (i + 1)..Len(a) :
    /\ a[j] + b[j] >= 10
    /\ \A k \in (i + 1)..(j - 1) : a[k] + b[k] = 9

Add(a, b) ==
  LET n == 1 + (IF Len(a) > Len(b) THEN Len(a) ELSE Len(b))
      x == PadTo(a, n)
      y == PadTo(b, n)
  IN  Norm([i \in 1..n |->
             (x[i] + y[i] + (IF CarryInto(x, y, i) THEN 1 ELSE 0)) % 10])

\* The borrow from digit i of a - b.
BorrowFrom(a, b, i) ==
  \E j \in (i + 1)..Len(a) :
    /\ a[j] < b[j]
    /\ \A k \in (i + 1)..(j - 1) : a[k] = b[k]

\* a - b for a >= b
Sub(a, b) ==
  LET y == PadTo(b, Len(a))
  IN  Norm([i \in 1..Len(a) |->
             (10 + a[i] - y[i] - (IF BorrowFrom(a, y, i) THEN 1 ELSE 0)) % 10])

\* a, 2a, ..., 9a
Multiples(a) ==
  LET m2 == Add(a, a)
      m3 == Add(m2, a)
      m4 == Add(m3, a)
      m5 == Add(m4, a)
      m6 == Add(m5, a)
      m7 == Add(m6, a)
      m8 == Add(m7, a)
      m9 == Add(m8, a)
  IN  <<a, m2, m3, m4, m5, m6, m7, m8, m9>>

RECURSIVE MulSmall(_, _)
\* a * k for a small factor k, digit by digit of k
MulSmall(a, k) ==
  IF k = 0 THEN <<0>>
  ELSE IF k < 10 THEN Multiples(a)[k]
  ELSE Add(Norm(MulSmall(a, k \div 10) \o <<0>>), MulSmall(a, k % 10))

RECURSIVE DivRange(_, _, _, _, _)
\* long division over the digits lo..hi of a, entered with the remainder r;
\* m holds the multiples of the divisor
DivRange(a, m, lo, hi, r) ==
  IF lo = hi
  THEN LET r1 == Norm(r \o <<a[lo]>>)
           t == Cardinality({k \in 1..9 : Leq(m[k], r1)})
       IN  [q |-> <<t>>, r |-> IF t = 0 THEN r1 ELSE Sub(r1, m[t])]
  ELSE LET mid == (lo + hi) \div 2
           high == DivRange(a, m, lo, mid, r)
           low == DivRange(a, m, mid + 1, hi, high.r)
       IN  [q |-> high.q \o low.q, r |-> low.r]

\* quotient and remainder of a by b > 0
DivMod(a, b) ==
  LET d == DivRange(a, Multiples(b), 1, Len(a), <<0>>)
  IN  [q |-> Norm(d.q), r |-> d.r]

----------------------------------------------------------------------------
(* Machine integers *)

\* 2^31, 2^32, 2^63 and 2^64
Two31 == <<2, 1, 4, 7, 4, 8, 3, 6, 4, 8>>
Two32 == <<4, 2, 9, 4, 9, 6, 7, 2, 9, 6>>
Two63 ==
  <<9, 2, 2, 3, 3, 7, 2, 0, 3, 6, 8, 5, 4, 7, 7, 5, 8, 0, 8>>
Two64 ==
  <<1, 8, 4, 4, 6, 7, 4, 4, 0, 7, 3, 7, 0, 9, 5, 5, 1, 6, 1, 6>>

\* math.MaxUint64
MaxUint64 == Sub(Two64, <<1>>)

\* the width of Go's int on the build
IntBits(b) == IF b = "386" THEN 32 ELSE 64

\* 2^bits and 2^(bits-1) for the widths of int
Modulus(bits) == IF bits = 32 THEN Two32 ELSE Two64
HalfModulus(bits) == IF bits = 32 THEN Two31 ELSE Two63

\* a signed integer: its sign and its magnitude (zero is not negative)
Pos(mag) == [neg |-> FALSE, mag |-> mag]
Neg(mag) == [neg |-> mag # <<0>>, mag |-> mag]

MinInt(bits) == Neg(HalfModulus(bits))
MaxInt(bits) == Pos(Sub(HalfModulus(bits), <<1>>))

\* uint64 arithmetic wraps around
Wrap(x) == IF Less(x, Two64) THEN x ELSE DivMod(x, Two64).r

\* a - b in uint64
WrapSub(a, b) == IF Leq(b, a) THEN Sub(a, b) ELSE Sub(Add(a, Two64), b)

\* conversion of a uint64 to a signed integer of the given width (int(x),
\* int64(x)): the low bits, read as two's complement
ToSigned(x, bits) ==
  LET y == IF Less(x, Modulus(bits)) THEN x ELSE DivMod(x, Modulus(bits)).r
  IN  IF Leq(HalfModulus(bits), y) THEN Neg(Sub(Modulus(bits), y)) ELSE Pos(y)

\* i > k for a signed integer i and a small natural k
GreaterInt(i, k) == ~i.neg /\ Less(FromInt(k), i.mag)

\* Go's integer division of a signed integer truncates toward zero
TruncDiv(i, d) ==
  LET q == DivMod(i.mag, d).q
  IN  IF i.neg THEN Neg(q) ELSE Pos(q)

----------------------------------------------------------------------------
(* Program constants *)

loadAvgThreshold == 30
memUsageThreshold == 80
diskUsageLimit == 90
netUsageLimit == 90
oneMiB == FromInt(1024 * 1024)
oneMibit == FromInt(1024 * 1024)
netDivisor == FromInt(1000000)
failureLimit == 3
StatusOK == 200

----------------------------------------------------------------------------
(* strings and strconv *)

Digits == <<"0", "1", "2", "3", "4", "5", "6", "7", "8", "9">>

IsDigit(c) == \E i \in 1..10 : Digits[i] = c

DigitVal(c) == (CHOOSE i \in 1..10 : Digits[i] = c) - 1

\* the decimal text of a natural number (%d, strconv.FormatUint)
Txt(a) == [i \in 1..Len(a) |-> Digits[a[i] + 1]]

RECURSIVE TrimLeft(_, _)
\* strings.TrimLeft with the cutset given as a set of characters
TrimLeft(s, cut) ==
  IF s # <<>> /\ Head(s) \in cut THEN TrimLeft(Tail(s), cut) ELSE s

RECURSIVE TrimRight(_, _)
\* strings.TrimRight with the cutset given as a set of characters
TrimRight(s, cut) ==
  IF s # <<>> /\ s[Len(s)] \in cut
  THEN TrimRight(SubSeq(s, 1, Len(s) - 1), cut)
  ELSE s

TrimSpace(s) == TrimRight(TrimLeft(s, {" ", "\n"}), {" ", "\n"})

Contains(s, c) == \E i \in 1..Len(s) : s[i] = c

RECURSIVE Split(_, _)
\* strings.Split(s, sep) for a one-character separator: Count(sep)+1 fields
Split(s, sep) ==
  IF ~Contains(s, sep) THEN <<s>>
  ELSE LET i == CHOOSE k \in 1..Len(s) :
                  s[k] = sep /\ \A j \in 1..(k - 1) : s[j] # sep
       IN  <<SubSeq(s, 1, i - 1)>> \o Split(SubSeq(s, i + 1, Len(s)), sep)

\* splitCSV of part_000: split on "," and trim every part
splitCSV(s) ==
  LET parts == Split(s, ",")
  IN  [i \in 1..Len(parts) |-> TrimSpace(parts[i])]

\* bufio.Reader.ReadString('\n') on a fresh reader: the text up to and
\* including the first "\n", or all of it when there is none
ReadString(s) ==
  IF ~Contains(s, "\n") THEN s
  ELSE LET i == CHOOSE k \in 1..Len(s) :
                  s[k] = "\n" /\ \A j \in 1..(k - 1) : s[j] # "\n"
       IN  SubSeq(s, 1, i)

\* strconv.ParseUint(s, 10, 64): a syntax error gives 0, a range error gives
\* the largest uint64; both come with a non-nil error
ParseUint(s) ==
  IF s = <<>> \/ \E i \in 1..Len(s) : ~IsDigit(s[i])
  THEN [ok |-> FALSE, val |-> <<0>>]
  ELSE LET v == Norm([i \in 1..Len(s) |-> DigitVal(s[i])])
       IN  IF Less(MaxUint64, v) THEN [ok |-> FALSE, val |-> MaxUint64]
           ELSE [ok |-> TRUE, val |-> v]

\* parseUint of part_000: trims, then ParseUint
parseUint(s) == ParseUint(TrimSpace(s))

CountOf(s, c) == Cardinality({i \in 1..Len(s) : s[i] = c})

RECURSIVE Drop(_, _)
\* s without its occurrences of c
Drop(s, c) ==
  IF s = <<>> THEN <<>>
  ELSE IF Head(s) = c THEN Drop(Tail(s), c)
  ELSE <<Head(s)>> \o Drop(Tail(s), c)

\* the number of characters after the "." of a decimal text (0 without one)
FracLen(s) ==
  IF ~Contains(s, ".") THEN 0
  ELSE Len(s) - (CHOOSE k \in 1..Len(s) : s[k] = ".")

\* strconv.ParseFloat(s, 64) on the alphabet: digits with at most one ".",
\* at least one digit.  The value is kept as the exact decimal
\* mant / 10^frac: the float64 nearest to a decimal of a few digits compares
\* with 30 as the decimal does
ParseFloat(s) ==
  IF \/ \E i \in 1..Len(s) : ~(IsDigit(s[i]) \/ s[i] = ".")
     \/ CountOf(s, ".") > 1
     \/ Drop(s, ".") = <<>>
  THEN [ok |-> FALSE, mant |-> <<0>>, frac |-> 0]
  ELSE LET d == Drop(s, ".")
       IN  [ok |-> TRUE, mant |-> Norm([i \in 1..Len(d) |-> DigitVal(d[i])]),
            frac |-> FracLen(s)]

\* loadAvg > threshold for a parsed decimal
FloatGreater(f, threshold) == Less(Scaled(threshold, f.frac), f.mant)

\* trimTrailingZeros: without a "." the text is returned as it is; otherwise
\* the trailing "0"s are cut, then the trailing "."s
trimTrailingZeros(s) ==
  IF ~Contains(s, ".") THEN s
  ELSE TrimRight(TrimRight(s, {"0"}), {"."})

----------------------------------------------------------------------------
(* Responses, lines and results *)

\* a response: status 0 stands for a request that failed in transport
Response(status, body) == [status |-> status, body |-> body]

\* a printed line: its message, and the text (%s) or the number (%d) in it
Line(kind, text, val) == [kind |-> kind, text |-> text, val |-> val]

NoticeLine == Line("Unable to fetch server statistic.", <<>>, Pos(<<0>>))

\* the numbers of a poll that parsed nothing
NoSnap ==
  [valid |-> FALSE, field0 |-> <<>>,
   loadAvg |-> [ok |-> FALSE, mant |-> <<0>>, frac |-> 0],
   totalRAM |-> <<0>>, usedRAM |-> <<0>>, totalDisk |-> <<0>>, usedDisk |-> <<0>>,
   netCap |-> <<0>>, netUsed |-> <<0>>]

Failed(e) == [err |-> e, out |-> <<>>, snap |-> NoSnap]

----------------------------------------------------------------------------
(* main.go: pollOnce *)

\* 1) Load Average: printed from fields[0] as split, not as parsed
checkLoad(loadAvg, field0) ==
  IF FloatGreater(loadAvg, loadAvgThreshold)
  THEN <<Line("load", trimTrailingZeros(field0), Pos(<<0>>))>>
  ELSE <<>>

\* int((used * 100) / total): the product in uint64, the quotient as an int
percentOf(used, total, b) ==
  ToSigned(DivMod(Wrap(MulSmall(used, 100)), total).q, IntBits(b))

\* checkMemory with the percentage rounded to the nearest integer instead of cut
checkMemory_rounded(totalRAM, usedRAM, b) ==
  IF totalRAM # <<0>>
  THEN LET d == DivMod(Wrap(MulSmall(usedRAM, 100)), totalRAM)
           percent == ToSigned(IF Leq(totalRAM, MulSmall(d.r, 2))
                               THEN Add(d.q, <<1>>) ELSE d.q, IntBits(b))
       IN  IF GreaterInt(percent, memUsageThreshold)
           THEN <<Line("mem", <<>>, percent)>>
           ELSE <<>>
  ELSE <<>>

\* 2) memory: percent := int((usedRAM * 100) / totalRAM)
checkMemory(totalRAM, usedRAM, b) ==
  IF totalRAM # <<0>>
  THEN LET percent == percentOf(usedRAM, totalRAM, b)
       IN  IF GreaterInt(percent, memUsageThreshold)
           THEN <<Line("mem", <<>>, percent)>>
           ELSE <<>>
  ELSE <<>>

\* 3) disk: freeMB := (totalDisk - usedDisk) / oneMiB, in uint64
checkDisk(totalDisk, usedDisk, b) ==
  IF totalDisk # <<0>>
  THEN LET percent == percentOf(usedDisk, totalDisk, b)
       IN  IF GreaterInt(percent, diskUsageLimit)
           THEN <<Line("disk", <<>>,
                       Pos(DivMod(WrapSub(totalDisk, usedDisk), oneMiB).q))>>
           ELSE <<>>
  ELSE <<>>

\* 4) network: freeMbit := int(freeBytes / 1_000_000)
checkNetwork(netCap, netUsed, b) ==
  IF netCap # <<0>>
  THEN LET percent == percentOf(netUsed, netCap, b)
       IN  IF GreaterInt(percent, netUsageLimit)
           THEN <<Line("net", <<>>,
                       ToSigned(DivMod(WrapSub(netCap, netUsed), netDivisor).q,
                                IntBits(b)))>>
           ELSE <<>>
  ELSE <<>>

\* the four checks in the order of the code
evaluate(s, b) ==
  checkLoad(s.loadAvg, s.field0)
    \o checkMemory(s.totalRAM, s.usedRAM, b)
    \o checkDisk(s.totalDisk, s.usedDisk, b)
    \o checkNetwork(s.netCap, s.netUsed, b)

\* fields 1-6: the error of ParseUint is dropped, its value is used
parseFields(fields) ==
  [valid |-> TRUE, field0 |-> fields[1],
   loadAvg |-> ParseFloat(TrimSpace(fields[1])),
   totalRAM |-> ParseUint(TrimSpace(fields[2])).val,
   usedRAM |-> ParseUint(TrimSpace(fields[3])).val,
   totalDisk |-> ParseUint(TrimSpace(fields[4])).val,
   usedDisk |-> ParseUint(TrimSpace(fields[5])).val,
   netCap |-> ParseUint(TrimSpace(fields[6])).val,
   netUsed |-> ParseUint(TrimSpace(fields[7])).val]

pollOnce(r, b) ==
  IF r.status = 0 THEN Failed("transport")
  ELSE IF r.status # StatusOK THEN Failed("bad status")
  ELSE LET line == TrimSpace(r.body)
           fields == Split(line, ",")
       IN  IF line = <<>> THEN Failed("empty body")
           ELSE IF Len(fields) # 7 THEN Failed("unexpected fields count")
           ELSE IF ~ParseFloat(TrimSpace(fields[1])).ok THEN Failed("parse load avg")
           ELSE LET s == parseFields(fields)
                IN  [err |-> "nil", out |-> evaluate(s, b), snap |-> s]

----------------------------------------------------------------------------
(* unnamed/part_000: pollOnce *)

\* float64(used) / float64(total) > pct/100, for total > 0.  The quotient is
\* compared as the exact fraction, which is what the float64 comparison gives
\* for the byte counts of the responses below
RatioGreater(used, total, pct) == Less(MulSmall(total, pct), MulSmall(used, 100))

\* math.Round(used/total * 100): to the nearest integer, halves away from zero
RoundPercent(used, total) ==
  LET d == DivMod(MulSmall(used, 100), total)
  IN  IF Leq(total, MulSmall(d.r, 2)) THEN Add(d.q, <<1>>) ELSE d.q

\* int(f) for an integral float64 f >= 0: exact when f fits the int; otherwise
\* the result is what the processor's conversion gives (amd64, 386: the
\* smallest int; arm64: the largest)
FloatToInt(f, b) ==
  IF Leq(f, MaxInt(IntBits(b)).mag) THEN Pos(f)
  ELSE IF b = "arm64" THEN MaxInt(IntBits(b)) ELSE MinInt(IntBits(b))

checkLoad_part000(loadAvg, loadAvgStr) ==
  IF FloatGreater(loadAvg, loadAvgThreshold)
  THEN <<Line("load", trimTrailingZeros(loadAvgStr), Pos(<<0>>))>>
  ELSE <<>>

\* checkMemory_part000 without its guard totalRAM > 0: the quotient by zero is
\* +Inf (NaN for 0/0, which compares false), and int(+Inf) is out of range
checkMemory_unguarded(totalRAM, usedRAM, b) ==
  IF totalRAM = <<0>>
  THEN IF usedRAM # <<0>> THEN <<Line("mem", <<>>, FloatToInt(Two64, b))>> ELSE <<>>
  ELSE IF RatioGreater(usedRAM, totalRAM, memUsageThreshold)
  THEN <<Line("mem", <<>>, FloatToInt(RoundPercent(usedRAM, totalRAM), b))>>
  ELSE <<>>

checkMemory_part000(totalRAM, usedRAM, b) ==
  IF totalRAM # <<0>> /\ RatioGreater(usedRAM, totalRAM, memUsageThreshold)
  THEN <<Line("mem", <<>>, FloatToInt(RoundPercent(usedRAM, totalRAM), b))>>
  ELSE <<>>

\* freeBytes := int64(totalDisk - usedDisk); freeMB := freeBytes / oneMiB
checkDisk_part000(totalDisk, usedDisk) ==
  IF totalDisk # <<0>> /\ RatioGreater(usedDisk, totalDisk, diskUsageLimit)
  THEN <<Line("disk", <<>>,
              TruncDiv(ToSigned(WrapSub(totalDisk, usedDisk), 64), oneMiB))>>
  ELSE <<>>

\* freeBytesPerSec := int64(netCap - netUsed); (freeBytesPerSec * 8) / oneMibit
checkNetwork_part000(netCap, netUsed) ==
  IF netCap # <<0>> /\ RatioGreater(netUsed, netCap, netUsageLimit)
  THEN <<Line("net", <<>>,
              TruncDiv(ToSigned(Wrap(MulSmall(WrapSub(netCap, netUsed), 8)), 64),
                       oneMibit))>>
  ELSE <<>>

evaluate_part000(s, b) ==
  checkLoad_part000(s.loadAvg, s.field0)
    \o checkMemory_part000(s.totalRAM, s.usedRAM, b)
    \o checkDisk_part000(s.totalDisk, s.usedDisk)
    \o checkNetwork_part000(s.netCap, s.netUsed)

pollOnce_part000(r, b) ==
  IF r.status = 0 THEN Failed("transport")
  ELSE IF r.status # StatusOK THEN Failed("bad status")
  ELSE LET line == TrimSpace(ReadString(r.body))
           fields == splitCSV(line)
       IN  IF line = <<>> THEN Failed("empty body")
           ELSE IF Len(fields) # 7 THEN Failed("unexpected fields count")
           ELSE IF ~ParseFloat(fields[1]).ok THEN Failed("parse load avg")
           ELSE IF ~parseUint(fields[2]).ok THEN Failed("parse total RAM")
           ELSE IF ~parseUint(fields[3]).ok THEN Failed("parse used RAM")
           ELSE IF ~parseUint(fields[4]).ok THEN Failed("parse total disk")
           ELSE IF ~parseUint(fields[5]).ok THEN Failed("parse used disk")
           ELSE IF ~parseUint(fields[6]).ok THEN Failed("parse net capacity")
           ELSE IF ~parseUint(fields[7]).ok THEN Failed("parse net used")
           ELSE LET s == [valid |-> TRUE, field0 |-> fields[1],
                          loadAvg |-> ParseFloat(fields[1]),
                          totalRAM |-> parseUint(fields[2]).val,
                          usedRAM |-> parseUint(fields[3]).val,
                          totalDisk |-> parseUint(fields[4]).val,
                          usedDisk |-> parseUint(fields[5]).val,
                          netCap |-> parseUint(fields[6]).val,
                          netUsed |-> parseUint(fields[7]).val]
                IN  [err |-> "nil", out |-> evaluate_part000(s, b), snap |-> s]

----------------------------------------------------------------------------
(* The responses the remote host may give *)

\* the decimal text of a small natural number
Dec(n) == Txt(FromInt(n))

Decimal(n, frac) == Dec(n) \o <<".">> \o frac

Pair(total, used) == <<Dec(total), Dec(used)>>

BigPair(total, used) == <<Txt(total), Txt(used)>>

RECURSIVE Join(_)
\* the fields with "," between them
Join(fs) ==
  IF Len(fs) = 1 THEN fs[1] ELSE fs[1] \o <<",">> \o Join(Tail(fs))

Field0Core == {Dec(30), Dec(31)}

Field0More ==
  { Decimal(30, <<"0", "0">>), Decimal(30, <<"5", "0">>), Decimal(30, <<"0", "1">>),
    Decimal(31, <<>>), Dec(45), <<"x">>, <<>>,
    Dec(31) \o <<" ">>, Decimal(31, <<"5", "0">>) \o <<" ">> }

MemCore == {Pair(0, 5), Pair(100, 80), Pair(100, 85)}

MemMore ==
  { Pair(1000, 805),
    BigPair(Scaled(16, 9), Scaled(14, 9)),
    BigPair(MaxUint64, MaxUint64),
    BigPair(<<1>>, Scaled(1, 17)),
    BigPair(<<1>>, Scaled(3, 10)),
    BigPair(<<0>>, MaxUint64),
    <<(<<"x">>), Dec(5)>>,
    <<Dec(100), <<>>>>,
    <<Txt(Two64), Dec(5)>>,
    <<(<<" ">>) \o Dec(100), Dec(85) \o <<" ">>>> }

DiskCore == {Pair(0, 7), Pair(100, 90), Pair(100, 95)}

DiskMore ==
  { Pair(100, 200), Pair(1000, 905),
    BigPair(Scaled(1, 12), Scaled(95, 10)),
    BigPair(<<0>>, MaxUint64),
    <<Dec(100), <<"9", "x">>>> }

NetCore == {Pair(0, 9), Pair(100, 90), Pair(100, 95)}

NetMore ==
  { Pair(100, 300),
    BigPair(Scaled(1, 9), Scaled(95, 7)),
    BigPair(<<0>>, MaxUint64),
    <<(<<"x">>), Dec(9)>> }

Body7(f0, m, d, n) == Join(<<f0, m[1], m[2], d[1], d[2], n[1], n[2]>>)

DefaultBody == Body7(Dec(31), Pair(100, 85), Pair(100, 95), Pair(100, 95))

SixFields == Join(<<Dec(31), Dec(100), Dec(85), Dec(100), Dec(95), Dec(100)>>)

Bodies ==
  { Body7(f0, m, d, n) : f0 \in Field0Core, m \in MemCore, d \in DiskCore, n \in NetCore }
  \cup { Body7(f0, Pair(100, 85), Pair(100, 95), Pair(100, 95)) : f0 \in Field0More }
  \cup { Body7(Dec(31), m, Pair(100, 95), Pair(100, 95)) : m \in MemMore }
  \cup { Body7(Dec(31), Pair(100, 85), d, Pair(100, 95)) : d \in DiskMore }
  \cup { Body7(Dec(31), Pair(100, 85), Pair(100, 95), n) : n \in NetMore }
  \cup { <<>>, <<" ", "\n">>,
         SixFields,
         DefaultBody \o <<",">> \o Dec(0),
         DefaultBody \o <<"\n">>,
         <<"\n">> \o DefaultBody,
         DefaultBody \o <<"\n", ",">> \o Dec(0),
         SixFields \o <<"\n", ",">> \o Dec(95) }

Responses ==
  {Response(0, <<>>), Response(500, <<>>)}
  \cup {Response(StatusOK, b) : b \in Bodies}

NoResponse == Response(0 - 1, <<>>)

Builds == {"amd64", "arm64", "386"}

----------------------------------------------------------------------------
(* The polling loop *)

\* afterPoll whose success branch leaves errorPrinted as it is
afterPoll_keepsFlag(failed, errors, printed) ==
  IF failed
  THEN LET notice == errors + 1 >= failureLimit /\ ~printed
       IN  [consecutiveErrors |-> errors + 1,
            errorPrinted |-> printed \/ notice,
            notice |-> notice]
  ELSE [consecutiveErrors |-> 0, errorPrinted |-> printed, notice |-> FALSE]

\* afterPoll that compares with > where the code compares with >=
afterPoll_late(failed, errors, printed) ==
  IF failed
  THEN LET notice == errors + 1 > failureLimit /\ ~printed
       IN  [consecutiveErrors |-> errors + 1,
            errorPrinted |-> printed \/ notice,
            notice |-> notice]
  ELSE [consecutiveErrors |-> 0, errorPrinted |-> FALSE, notice |-> FALSE]

\* main.go: the body of the loop after pollOnce has returned
afterPoll(failed, errors, printed) ==
  IF failed
  THEN LET notice == errors + 1 >= failureLimit /\ ~printed
       IN  [consecutiveErrors |-> errors + 1,
            errorPrinted |-> printed \/ notice,
            notice |-> notice]
  ELSE [consecutiveErrors |-> 0, errorPrinted |-> FALSE, notice |-> FALSE]

\* part_000: the same, but a success resets the counter alone
afterPoll_part000(failed, errors, printed) ==
  IF failed
  THEN LET notice == errors + 1 >= failureLimit /\ ~printed
       IN  [consecutiveErrors |-> errors + 1,
            errorPrinted |-> printed \/ notice,
            notice |-> notice]
  ELSE [consecutiveErrors |-> 0, errorPrinted |-> printed, notice |-> FALSE]

\* what an observer of the polls and of standard output records
Observe(failed, notice) ==
  /\ failStreak' = IF failed THEN failStreak + 1 ELSE 0
  /\ streakNotices' = IF failed THEN streakNotices + (IF notice THEN 1 ELSE 0) ELSE 0
  /\ recovered' = (recovered \/ (~failed /\ streakNotices > 0))

\* one iteration of a loop: the poll p of response r, then the loop's body a
Iteration(r, p, a) ==
  /\ resp' = r
  /\ err' = p.err
  /\ snap' = p.snap
  /\ out' = IF a.notice THEN Append(p.out, NoticeLine) ELSE p.out
  /\ consecutiveErrors' = a.consecutiveErrors
  /\ errorPrinted' = a.errorPrinted
  /\ Observe(p.err # "nil", a.notice)
  /\ UNCHANGED <<variant, build>>

Init ==
  /\ variant \in {"main", "part_000"}
  /\ build \in Builds
  /\ consecutiveErrors = 0
  /\ errorPrinted = FALSE
  /\ resp = NoResponse
  /\ err = "nil"
  /\ snap = NoSnap
  /\ out = <<>>
  /\ failStreak = 0
  /\ streakNotices = 0
  /\ recovered = FALSE

\* main.go: what pollOnce returns for every response on every build
polled ==
  { [build |-> b, resp |-> r, result |-> pollOnce(r, b)] :
    b \in Builds, r \in Responses }

\* part_000: what pollOnce returns for every response on every build
polled_part000 ==
  { [build |-> b, resp |-> r, result |-> pollOnce_part000(r, b)] :
    b \in Builds, r \in Responses }

\* main.go: one iteration of main's loop
main ==
  /\ variant = "main"
  /\ \E e \in polled :
       /\ e.build = build
       /\ e.result.err # "nil" => consecutiveErrors < MaxStreak
       /\ Iteration(e.resp, e.result,
                    afterPoll(e.result.err # "nil", consecutiveErrors, errorPrinted))

\* part_000: one iteration of main's loop
main_part000 ==
  /\ variant = "part_000"
  /\ \E e \in polled_part000 :
       /\ e.build = build
       /\ e.result.err # "nil" => consecutiveErrors < MaxStreak
       /\ Iteration(e.resp, e.result,
                    afterPoll_part000(e.result.err # "nil", consecutiveErrors,
                                      errorPrinted))

Next == main \/ main_part000

Spec == Init /\ [][Next]_vars

----------------------------------------------------------------------------
(* The claims *)

Polled == resp # NoResponse

HasLine(kind) == \E i \in 1..Len(out) : out[i].kind = kind

LineOf(kind) == out[CHOOSE i \in 1..Len(out) : out[i].kind = kind]

IsWarning(l) == l.kind \in {"load", "mem", "disk", "net"}

\* the kinds of the warnings printed, in the order printed
Warnings == LET w == SelectSeq(out, IsWarning) IN [i \in 1..Len(w) |-> w[i].kind]

\* the fields of the whole body, trimmed and split on ","
BodyFields == Split(TrimSpace(resp.body), ",")

UintFieldsParse ==
  \A i \in 2..7 : ParseUint(TrimSpace(BodyFields[i])).ok

\* C1: in main.go, the third consecutive failed poll prints the notice, once;
\* further failures of the streak print none; and after a successful poll a
\* new streak prints it again at its third failure.
C1_NoticeOncePerStreak ==
  variant = "main" =>
    /\ streakNotices = (IF failStreak >= 3 THEN 1 ELSE 0)
    /\ HasLine(NoticeLine.kind) <=> failStreak = 3

\* a second streak, after a recovery, has alerted once and its fourth failure
\* has printed nothing more
C1_Witness ==
  /\ variant = "main"
  /\ recovered
  /\ failStreak = 4
  /\ streakNotices = 1
  /\ ~HasLine(NoticeLine.kind)

\* C2: in part_000, a successful poll clears the alerting flag, and a streak of
\* three failures after a recovery prints the notice again.
C2_RealertsAfterRecovery ==
  variant = "part_000" =>
    /\ (Polled /\ err = "nil") => ~errorPrinted
    /\ (recovered /\ failStreak >= 3) => streakNotices = 1

\* used/total > pct/100 as exact fractions, for total > 0
ExactlyAbove(used, total, pct) ==
  total # <<0>> /\ Less(MulSmall(total, pct), MulSmall(used, 100))

\* the metrics whose value strictly exceeds its threshold
Exceeds(kind) ==
  CASE kind = "load" -> FloatGreater(snap.loadAvg, 30)
    [] kind = "mem" -> ExactlyAbove(snap.usedRAM, snap.totalRAM, 80)
    [] kind = "disk" -> ExactlyAbove(snap.usedDisk, snap.totalDisk, 90)
    [] kind = "net" -> ExactlyAbove(snap.netUsed, snap.netCap, 90)

\* C3: in main.go, for a body of 7 valid numeric fields the warnings printed
\* are exactly those of the metrics that strictly exceed their thresholds
\* (exact ratios), in the order load, memory, disk, network.
C3_WarningsExactlyAboveThreshold ==
  (variant = "main" /\ Polled /\ snap.valid /\ UintFieldsParse) =>
    Warnings = SelectSeq(<<"load", "mem", "disk", "net">>, Exceeds)

\* C4: in main.go, a poll of 7 fields one of whose fields 1-6 is no unsigned
\* integer is discarded: pollOnce returns an error, nothing is printed for
\* it, and it counts as a failure.
C4_UnparsableFieldFailsPoll ==
  (/\ variant = "main"
   /\ Polled
   /\ resp.status = StatusOK
   /\ Len(BodyFields) = 7
   /\ ~UintFieldsParse) =>
    (err # "nil" /\ Warnings = <<>> /\ consecutiveErrors >= 1)

\* C5: in both programs, a body that (trimmed) splits on "," into a number of
\* fields other than 7 makes pollOnce fail before any check: no warning is
\* printed and the poll counts as a failure.
C5_WrongFieldCountFailsPoll ==
  (Polled /\ resp.status = StatusOK /\ Len(BodyFields) # 7) =>
    (err # "nil" /\ Warnings = <<>> /\ consecutiveErrors >= 1 /\ failStreak >= 1)

\* the checks of the running program
Evaluate(s) ==
  IF variant = "main" THEN evaluate(s, build) ELSE evaluate_part000(s, build)

Except(lines, kind) == SelectSeq(lines, LAMBDA l : l.kind # kind)

\* numerators to compare a snapshot with
Samples == {<<0>>, <<5>>, <<1, 0, 0>>, MaxUint64}

\* C6: in both programs, a denominator of 0 suppresses its metric's warning
\* whatever the numerator, and the other metrics' warnings are what they are
\* for any other values of the suppressed metric.
C6_ZeroDenominatorSkipsCheck ==
  (Polled /\ snap.valid) =>
    /\ snap.totalRAM = <<0>> =>
         /\ ~HasLine("mem")
         /\ \A u \in Samples : Evaluate([snap EXCEPT !.usedRAM = u]) = out
         /\ \A u \in Samples :
              Except(Evaluate([snap EXCEPT !.totalRAM = <<1, 0, 0>>, !.usedRAM = u]),
                     "mem") = out
    /\ snap.totalDisk = <<0>> =>
         /\ ~HasLine("disk")
         /\ \A u \in Samples : Evaluate([snap EXCEPT !.usedDisk = u]) = out
         /\ \A u \in Samples :
              Except(Evaluate([snap EXCEPT !.totalDisk = <<1, 0, 0>>, !.usedDisk = u]),
                     "disk") = out
    /\ snap.netCap = <<0>> =>
         /\ ~HasLine("net")
         /\ \A u \in Samples : Evaluate([snap EXCEPT !.netUsed = u]) = out
         /\ \A u \in Samples :
              Except(Evaluate([snap EXCEPT !.netCap = <<1, 0, 0>>, !.netUsed = u]),
                     "net") = out

\* part_000 with a zero total and the largest numerator, beside warnings of
\* other metrics
C6_Witness ==
  /\ variant = "part_000"
  /\ Polled
  /\ snap.valid
  /\ snap.totalRAM = <<0>>
  /\ snap.usedRAM = MaxUint64
  /\ HasLine("load")
  /\ HasLine("disk")
  /\ ~HasLine("mem")

\* C7: in main.go, the <N> of the load warning is the numeric text of field 0
\* with its trailing zeros and a trailing "." cut, also when white space
\* stands between the number and the next comma.
C7_LoadTextIsTrimmedNumber ==
  (variant = "main" /\ HasLine("load")) =>
    LineOf("load").text = trimTrailingZeros(TrimSpace(snap.field0))

\* floor(usedMemory * 100 / totalMemory) in unbounded integers
MemFloor == DivMod(MulSmall(snap.usedRAM, 100), snap.totalRAM).q

\* C8 as stated: in main.go, for every totalMemory > 0 and usedMemory, the
\* memory warning is printed iff floor(usedMemory*100/totalMemory) > 80 and
\* <P> is that floor; the product never wraps around.
C8_MemoryFloorAlways ==
  (variant = "main" /\ Polled /\ snap.valid /\ snap.totalRAM # <<0>>) =>
    /\ HasLine("mem") <=> Less(<<8, 0>>, MemFloor)
    /\ HasLine("mem") => LineOf("mem").val = Pos(MemFloor)

\* the product fits 64 bits and the quotient fits the build's int
MemInRange ==
  /\ Less(MulSmall(snap.usedRAM, 100), Two64)
  /\ Leq(MemFloor, MaxInt(IntBits(build)).mag)

\* C8 amended: the same, for the values whose product usedMemory*100 fits 64
\* bits and whose quotient fits the build's int.
C8_MemoryFloorInRange ==
  (/\ variant = "main"
   /\ Polled
   /\ snap.valid
   /\ snap.totalRAM # <<0>>
   /\ MemInRange) =>
    /\ HasLine("mem") <=> Less(<<8, 0>>, MemFloor)
    /\ HasLine("mem") => LineOf("mem").val = Pos(MemFloor)

\* 85 of 100 printed as 85%
C8_Witness ==
  /\ variant = "main"
  /\ Polled
  /\ snap.valid
  /\ snap.totalRAM = <<1, 0, 0>>
  /\ snap.usedRAM = <<8, 5>>
  /\ MemInRange
  /\ HasLine("mem")
  /\ LineOf("mem").val = Pos(<<8, 5>>)

\* C9: in main.go, after every iteration errorPrinted holds iff
\* consecutiveErrors >= 3, and the notice is printed only by the iteration
\* that makes consecutiveErrors exactly 3.
C9_FlagAgreesWithCounter ==
  variant = "main" =>
    /\ errorPrinted <=> consecutiveErrors >= 3
    /\ HasLine(NoticeLine.kind) => consecutiveErrors = 3

\* the third failure of a streak has printed the notice and set the flag
C9_Witness ==
  /\ variant = "main"
  /\ consecutiveErrors = 3
  /\ errorPrinted
  /\ HasLine(NoticeLine.kind)

\* (total - used) / 1048576 in unbounded integers, truncated toward zero
ExactFreeMB ==
  IF Leq(snap.usedDisk, snap.totalDisk)
  THEN Pos(DivMod(Sub(snap.totalDisk, snap.usedDisk), oneMiB).q)
  ELSE Neg(DivMod(Sub(snap.usedDisk, snap.totalDisk), oneMiB).q)

\* C10: in main.go, the <F> of the disk warning is (totalDisk - usedDisk) /
\* 1048576 by integer division, also when usedDisk > totalDisk: the
\* subtraction does not wrap around.
C10_FreeDiskIsExactDifference ==
  (variant = "main" /\ HasLine("disk")) => LineOf("disk").val = ExactFreeMB

====
